---- MODULE Spec2Model ----
(***************************************************************************)
(* summo-scraper: robots-gated, paginated, concurrent crawl                *)
(* (src/summo_scraper.py, src/robots.py).                                  *)
(*                                                                         *)
(* Texts are sequences of one-character strings.  Characters outside       *)
(* ASCII are written by name: "ho" is the kanji of " 歩", "fun" of "分".   *)
(* A URL is a sequence of tokens; the literal "&page=" is one token.       *)
(* An optional value (Python None) is <<>>, a present value x is <<x>>.    *)
(***************************************************************************)
EXTENDS Integers, Sequences, FiniteSets, Bags, TLC

VARIABLES
    pc,                 \* position of the main thread
    robots,             \* what the origin's robots.txt answers
    url,                \* self.url
    should_turn_page,   \* self.should_turn_page
    should_save_temp,   \* self.should_save_temp
    delay,              \* self.delay
    max_page_no,        \* self.max_page_no
    items,              \* self.items
    timestamp,          \* self.timestamp
    fetch,              \* per caller of _fetch_soup: its loop state
    task,               \* per submitted item: its future
    rooms,              \* the aggregate DataFrame of scrape()
    pbar,               \* tqdm progress bar: [n, total]
    errlog,             \* URLs logged by "Failed to scrape"
    saved,              \* number of final save_csv calls
    tempfiles,          \* page numbers whose intermediate CSV was written
    fn                  \* a single function application (SpecFn)

mainVars == <<pc, robots, url, should_turn_page, should_save_temp, delay,
              max_page_no, items, timestamp, fetch, task, rooms, pbar,
              errlog, saved, tempfiles>>
vars == <<pc, robots, url, should_turn_page, should_save_temp, delay,
          max_page_no, items, timestamp, fetch, task, rooms, pbar,
          errlog, saved, tempfiles, fn>>

(***************************************************************************)
(* Program constants and model bounds                                      *)
(***************************************************************************)
MAX_RETRIES == 5
DELAY == 1
MaxPages == 2
PoolSize == 2

None == <<>>
Some(x) == <<x>>
Returned(v) == [exc |-> "", val |-> v]
Raised(e) == [exc |-> e, val |-> <<>>]

Digits == <<"0", "1", "2", "3", "4", "5", "6", "7", "8", "9">>
DigitSet == {Digits[i] : i \in 1..10}
DigitVal(c) == (CHOOSE i \in 1..10 : Digits[i] = c) - 1

\* str(n) for n >= 0
RECURSIVE DecStr(_)
DecStr(n) ==
    IF n < 10 THEN <<Digits[n + 1]>>
    ELSE DecStr(n \div 10) \o <<Digits[(n % 10) + 1]>>

\* str.isdigit()
IsDigit(text) == Len(text) > 0 /\ \A i \in 1..Len(text) : text[i] \in DigitSet

\* int(text) for a text with isdigit()
RECURSIVE ParseInt(_)
ParseInt(text) ==
    IF Len(text) = 0 THEN 0
    ELSE 10 * ParseInt(SubSeq(text, 1, Len(text) - 1)) + DigitVal(text[Len(text)])

(***************************************************************************)
(* URLs                                                                    *)
(***************************************************************************)
PageTok == "&page="

\* number of digit tokens of u from position i on
RECURSIVE DigitRun(_, _)
DigitRun(u, i) ==
    IF i <= Len(u) /\ u[i] \in DigitSet THEN 1 + DigitRun(u, i + 1) ELSE 0

\* re.sub("&page=[0-9]*", "", url): left to right, each match greedy
RECURSIVE SubPage(_, _)
SubPage(u, i) ==
    IF i > Len(u) THEN <<>>
    ELSE IF u[i] = PageTok THEN SubPage(u, i + 1 + DigitRun(u, i + 1))
    ELSE <<u[i]>> \o SubPage(u, i + 1)

\* re.sub(..., count=1)
get_base_url_first(u) ==
    LET hits == {i \in 1..Len(u) : u[i] = PageTok} IN
    IF hits = {} THEN u
    ELSE LET i == CHOOSE j \in hits : \A k \in hits : j <= k IN
         SubSeq(u, 1, i - 1) \o SubSeq(u, i + 1 + DigitRun(u, i + 1), Len(u))

\* lines 65-67
get_base_url(u) == SubPage(u, 1)

\* re.findall("&page=[0-9]*", url)[0] without "&page=", None when empty or absent
get_page_no(u) ==
    LET hits == {i \in 1..Len(u) : u[i] = PageTok} IN
    IF hits = {} THEN None
    ELSE LET i == CHOOSE j \in hits : \A k \in hits : j <= k
             n == DigitRun(u, i + 1)
         IN IF n = 0 THEN None ELSE Some(SubSeq(u, i + 1, i + n))

\* lines 246-247: one item per page number
BuildItems(u, maxno) ==
    [n \in 1..maxno |->
        [url |-> get_base_url(u) \o <<PageTok>> \o DecStr(n), page_no |-> Some(DecStr(n))]]

\* line 249
SingleItem(u) == <<[url |-> u, page_no |-> get_page_no(u)]>>

(***************************************************************************)
(* get_max_page_no, after the fetch: the scan of the pagination links      *)
(***************************************************************************)
\* the scan started at the first link
RECURSIVE ScanLinksForward(_, _)
ScanLinksForward(links, i) ==
    LET k == Len(links) - i + 1 IN
    IF i = 0 THEN 1
    ELSE IF IsDigit(links[k]) THEN ParseInt(links[k])
    ELSE ScanLinksForward(links, i - 1)

\* lines 85-89: for link in reversed(links), from the i-th link down
RECURSIVE ScanLinks(_, _)
ScanLinks(links, i) ==
    IF i = 0 THEN 1
    ELSE IF IsDigit(links[i]) THEN ParseInt(links[i])
    ELSE ScanLinks(links, i - 1)

\* pagination is None (no such div) or Some(links)
GetMaxPageNo(pagination) ==
    IF pagination = None THEN Raised("AttributeError")
    ELSE Returned(ScanLinks(pagination[1], Len(pagination[1])))

(***************************************************************************)
(* get_rooms_data, after the fetch: the walk over the listing markup.      *)
(* A page is the sequence of its div.cassetteitem elements.  An item is    *)
(*   [title, label, col1 : optional text, accesses : texts,                *)
(*    col3 : optional sequence of div texts, table : optional tbodys]      *)
(* and a tbody is                                                          *)
(*   [tds : texts, rent, administration, deposit, gratuity, madori,        *)
(*    menseki : optional text, link : optional (optional href)].           *)
(***************************************************************************)
Origin == "https://suumo.jp"
Origins == {Origin, "https://example.com"}

\* str.strip()
RECURSIVE LStrip(_)
LStrip(t) == IF Len(t) > 0 /\ t[1] = " " THEN LStrip(Tail(t)) ELSE t
RECURSIVE RStrip(_)
RStrip(t) ==
    IF Len(t) > 0 /\ t[Len(t)] = " " THEN RStrip(SubSeq(t, 1, Len(t) - 1)) ELSE t
Strip(t) == RStrip(LStrip(t))

\* urljoin("https://suumo.jp", href)
Urljoin(href) ==
    IF href = None \/ href[1] = <<>> THEN <<Origin>>
    ELSE IF href[1][1] \in Origins THEN href[1]
    ELSE IF href[1][1] = "/" THEN <<Origin>> \o href[1]
    ELSE <<Origin, "/">> \o href[1]

\* lines 99-109
BuildingOf(item) ==
    IF item.title = None \/ item.label = None \/ item.col1 = None
    THEN Raised("AttributeError")
    ELSE IF Len(item.accesses) < 3 THEN Raised("IndexError")
    ELSE IF item.col3 = None THEN Raised("AttributeError")
    ELSE IF Len(item.col3[1]) < 2 THEN Raised("IndexError")
    ELSE Returned([name |-> Strip(item.title[1]),
                   category |-> Strip(item.label[1]),
                   address |-> Strip(item.col1[1]),
                   access1 |-> Strip(item.accesses[1]),
                   access2 |-> Strip(item.accesses[2]),
                   access3 |-> Strip(item.accesses[3]),
                   age |-> Strip(item.col3[1][1]),
                   stories |-> Strip(item.col3[1][2])])

\* lines 114-123: room = building.copy() plus the room-level fields
RoomOf(b, tbody) ==
    IF Len(tbody.tds) < 3 THEN Raised("IndexError")
    ELSE IF \/ tbody.rent = None \/ tbody.administration = None
            \/ tbody.deposit = None \/ tbody.gratuity = None
            \/ tbody.madori = None \/ tbody.menseki = None
            \/ tbody.link = None
    THEN Raised("AttributeError")
    ELSE Returned([name |-> b.name, category |-> b.category,
                   address |-> b.address, access1 |-> b.access1,
                   access2 |-> b.access2, access3 |-> b.access3,
                   age |-> b.age, stories |-> b.stories,
                   floor |-> Strip(tbody.tds[3]),
                   rent |-> Strip(tbody.rent[1]),
                   admin |-> Strip(tbody.administration[1]),
                   deposit |-> Strip(tbody.deposit[1]),
                   gratuity |-> Strip(tbody.gratuity[1]),
                   layout |-> Strip(tbody.madori[1]),
                   size |-> Strip(tbody.menseki[1]),
                   url |-> Urljoin(tbody.link[1])])

\* the first tbody only
RoomsOfFirst(b, tbodys, i) ==
    IF i > Len(tbodys) THEN Returned(<<>>)
    ELSE LET r == RoomOf(b, tbodys[i]) IN
         IF r.exc # "" THEN r ELSE Returned(<<r.val>>)

\* lines 113-125: the tbodys of one item from the i-th on
RECURSIVE RoomsOf(_, _, _)
RoomsOf(b, tbodys, i) ==
    IF i > Len(tbodys) THEN Returned(<<>>)
    ELSE LET r == RoomOf(b, tbodys[i]) IN
         IF r.exc # "" THEN r
         ELSE LET rest == RoomsOf(b, tbodys, i + 1) IN
              IF rest.exc # "" THEN rest ELSE Returned(<<r.val>> \o rest.val)

\* lines 98-125 for one item
ItemRooms(item) ==
    LET b == BuildingOf(item) IN
    IF b.exc # "" THEN b
    ELSE IF item.table = None THEN Raised("AttributeError")
    ELSE RoomsOf(b.val, item.table[1], 1)

\* lines 97-128: the items of the page from the i-th on
RECURSIVE PageRooms(_, _)
PageRooms(page, i) ==
    IF i > Len(page) THEN Returned(<<>>)
    ELSE LET r == ItemRooms(page[i]) IN
         IF r.exc # "" THEN r
         ELSE LET rest == PageRooms(page, i + 1) IN
              IF rest.exc # "" THEN rest ELSE Returned(r.val \o rest.val)

GetRoomsData(page) == PageRooms(page, 1)

(***************************************************************************)
(* cleaning_rooms_data: the pandas column operations, row by row.          *)
(* Kanji are written by name: "ho" (walk), "fun" (minutes), "shin" "chiku" *)
(* (new-build), "nen" (years), "i" "jou" (or more), "chi" "ka" (basement), *)
(* "kai" (floor), "ken" (built), "hira" "ya" (single-story), "man" "en"    *)
(* (ten thousand yen).  A number is [m, s], meaning m / 10^s.              *)
(***************************************************************************)
MatchAt(t, i, pat) ==
    /\ i + Len(pat) - 1 <= Len(t)
    /\ \A k \in 1..Len(pat) : t[i + k - 1] = pat[k]

\* str.replace(pat, rep) with a literal, non-empty pat
RECURSIVE ReplaceFrom(_, _, _, _)
ReplaceFrom(t, i, pat, rep) ==
    IF i > Len(t) THEN <<>>
    ELSE IF MatchAt(t, i, pat) THEN rep \o ReplaceFrom(t, i + Len(pat), pat, rep)
    ELSE <<t[i]>> \o ReplaceFrom(t, i + 1, pat, rep)
Replace(t, pat, rep) == ReplaceFrom(t, 1, pat, rep)

\* Series.str.replace on a cell that may be missing
StrReplace(cell, pat, rep) ==
    IF cell = None THEN None ELSE Some(Replace(cell[1], pat, rep))

\* the regular expression "地下[\d+]地上" at position i
BasementAt(t, i) ==
    /\ i + 4 <= Len(t)
    /\ t[i] = "chi" /\ t[i + 1] = "ka"
    /\ t[i + 2] \in DigitSet \cup {"+"}
    /\ t[i + 3] = "chi" /\ t[i + 4] = "jou"

RECURSIVE DropBasementFrom(_, _)
DropBasementFrom(t, i) ==
    IF i > Len(t) THEN <<>>
    ELSE IF BasementAt(t, i) THEN DropBasementFrom(t, i + 5)
    ELSE <<t[i]>> \o DropBasementFrom(t, i + 1)

\* first position >= i where pat starts, 0 when there is none
RECURSIVE Find(_, _, _)
Find(t, i, pat) ==
    IF i + Len(pat) - 1 > Len(t) THEN 0
    ELSE IF MatchAt(t, i, pat) THEN i
    ELSE Find(t, i + 1, pat)

\* str.split(sep, n=1): one or two parts
Split1(t, sep) ==
    LET i == Find(t, 1, sep) IN
    IF i = 0 THEN <<t>>
    ELSE <<SubSeq(t, 1, i - 1), SubSeq(t, i + Len(sep), Len(t))>>

\* str.split(sep): all the parts
RECURSIVE SplitAll(_, _)
SplitAll(t, sep) ==
    LET i == Find(t, 1, sep) IN
    IF i = 0 THEN <<t>>
    ELSE <<SubSeq(t, 1, i - 1)>> \o SplitAll(SubSeq(t, i + Len(sep), Len(t)), sep)

\* column k of a frame made by str.split(expand=True): missing parts are None
Part(parts, k) == IF k <= Len(parts) THEN Some(parts[k]) ELSE None

RECURSIVE Pow10(_)
Pow10(n) == IF n = 0 THEN 1 ELSE 10 * Pow10(n - 1)

\* a number without trailing decimal zeros
RECURSIVE Norm(_)
Norm(x) ==
    IF x.s > 0 /\ x.m % 10 = 0 THEN Norm([m |-> x.m \div 10, s |-> x.s - 1]) ELSE x

\* pd.to_numeric(errors="coerce") of one cell: [+-]digits[.digits], else NaN
ToNumeric(cell) ==
    IF cell = None THEN None
    ELSE LET t == cell[1]
             signed == Len(t) > 0 /\ t[1] \in {"-", "+"}
             body == IF signed THEN Tail(t) ELSE t
             dot == Find(body, 1, <<".">>)
             ip == IF dot = 0 THEN body ELSE SubSeq(body, 1, dot - 1)
             fp == IF dot = 0 THEN <<>> ELSE SubSeq(body, dot + 1, Len(body))
             wellformed == /\ Len(ip) + Len(fp) > 0
                           /\ \A k \in 1..Len(ip) : ip[k] \in DigitSet
                           /\ \A k \in 1..Len(fp) : fp[k] \in DigitSet
             mag == ParseInt(ip) * Pow10(Len(fp)) + ParseInt(fp)
         IN IF ~wellformed THEN None
            ELSE Some(Norm([m |-> IF signed /\ t[1] = "-" THEN 0 - mag ELSE mag,
                            s |-> Len(fp)]))

\* a numeric column times 10000; NaN stays NaN
Times10000(num) ==
    IF num = None THEN None
    ELSE Some(Norm([m |-> num[1].m * 10000, s |-> num[1].s]))

Walk == <<" ", "ho">>
AccessOf(r, k) == IF k = 1 THEN r.access1 ELSE IF k = 2 THEN r.access2 ELSE r.access3

\* lines 131-153: the two splits of access column k give 2 and 3 columns
AccessColumnsFit(rows, k) ==
    /\ \E j \in 1..Len(rows) : Len(Split1(AccessOf(rows[j], k), Walk)) = 2
    /\ \E j \in 1..Len(rows) :
          Len(Split1(Split1(AccessOf(rows[j], k), Walk)[1], <<"/">>)) = 2

\* lines 164-167: the floor split gives at most 2 columns
FloorColumnsFit(rows) ==
    \A j \in 1..Len(rows) : Len(SplitAll(rows[j].floor, <<"-">>)) <= 2

\* [line, station, walk] of access slot k of one row
AccessTriple(r, k) ==
    LET a == Split1(AccessOf(r, k), Walk)
        ls == Split1(a[1], <<"/">>)
    IN [line |-> Part(ls, 1), station |-> Part(ls, 2),
        walk |-> StrReplace(Part(a, 2), <<"fun">>, <<>>)]

\* lines 155-158, 188
CleanAge(t) ==
    ToNumeric(Some(Replace(Replace(Replace(Replace(t,
        <<"shin", "chiku">>, <<"0">>), <<"chiku">>, <<>>), <<"nen">>, <<>>),
        <<"i", "jou">>, <<>>)))

\* lines 160-162, 189
CleanStories(t) ==
    ToNumeric(Some(Replace(Replace(DropBasementFrom(t, 1),
        <<"hira", "ya">>, <<"1">>), <<"kai", "ken">>, <<>>)))

\* lines 164-170, 190-191
CleanFloor(t) ==
    LET f == SplitAll(t, <<"-">>)
        f1 == Replace(Replace(Replace(f[1], <<"kai">>, <<>>), <<"-">>, <<"0">>),
                      <<"B">>, <<"-">>)
    IN [floor1 |-> ToNumeric(Some(f1)), floor2 |-> ToNumeric(Part(f, 2))]

\* lines 174-175, 180-184, 192, 194-195, 199-201
CleanManEn(t) ==
    Times10000(ToNumeric(Some(Replace(Replace(t, <<"man", "en">>, <<>>),
                                      <<"-">>, <<"0">>))))

\* the administration fee read in units of ten thousand yen
CleanEnScaled(t) ==
    Times10000(ToNumeric(Some(Replace(Replace(t, <<"en">>, <<>>), <<"-">>, <<"0">>))))

\* lines 177-178, 193
CleanEn(t) == ToNumeric(Some(Replace(Replace(t, <<"en">>, <<>>), <<"-">>, <<"0">>)))

\* line 186, 197
CleanSize(t) == ToNumeric(Some(Replace(t, <<"m", "2">>, <<>>)))

CleanRow(r) ==
    [name |-> r.name, category |-> r.category, address |-> r.address,
     access |-> [k \in 1..3 |-> AccessTriple(r, k)],
     age |-> CleanAge(r.age), stories |-> CleanStories(r.stories),
     floor |-> CleanFloor(r.floor),
     rent |-> CleanManEn(r.rent), admin |-> CleanEn(r.admin),
     deposit |-> CleanManEn(r.deposit), gratuity |-> CleanManEn(r.gratuity),
     layout |-> r.layout, size |-> CleanSize(r.size), url |-> r.url]

\* lines 130-203; a frame built from no rows has no columns
CleaningRoomsData(rows) ==
    IF rows = <<>> THEN Raised("KeyError")
    ELSE IF \E k \in 1..3 : ~AccessColumnsFit(rows, k) THEN Raised("ValueError")
    ELSE IF ~FloorColumnsFit(rows) THEN Raised("ValueError")
    ELSE Returned([j \in 1..Len(rows) |-> CleanRow(rows[j])])

\* lines 230-231 of scrape_summo on the fetched page
ScrapePage(page) ==
    LET raw == GetRoomsData(page) IN
    IF raw.exc # "" THEN raw ELSE CleaningRoomsData(raw.val)

(***************************************************************************)
(* The environment: robots.txt answers, input URLs, served pages           *)
(***************************************************************************)
RobotsAnswers ==
    {[readable |-> FALSE, can_fetch |-> FALSE, crawl_delay |-> None],
     [readable |-> TRUE, can_fetch |-> FALSE, crawl_delay |-> None],
     [readable |-> TRUE, can_fetch |-> TRUE, crawl_delay |-> None],
     [readable |-> TRUE, can_fetch |-> TRUE, crawl_delay |-> Some(2)]}

InputUrls ==
    {<<"s">>,
     <<"s", PageTok, "3", "&o", PageTok>>}

NextText == <<"n", "e">>
PlanPaginations ==
    LET texts == {DecStr(n) : n \in 0..MaxPages} \cup {NextText}
        seqs == UNION {[1..n -> texts] : n \in 0..2}
    IN {None} \cup {Some(l) : l \in seqs}

GoodAccess == <<"L", "/", "S", " ", "ho", "5", "fun">>
GoodTbody(tag) ==
    [tds |-> <<<<>>, <<>>, <<"2", "kai">>>>,
     rent |-> Some(<<"7", ".", "5", "man", "en">>),
     administration |-> Some(<<"3", "0", "0", "0", "en">>),
     deposit |-> Some(<<"-">>),
     gratuity |-> Some(<<"1", "man", "en">>),
     madori |-> Some(<<"1", "K">>),
     menseki |-> Some(<<"2", "0", "m", "2">>),
     link |-> Some(Some(<<"/", "r">> \o tag))]
BadTbody(tag) == [GoodTbody(tag) EXCEPT !.rent = None]
GoodItem(name, tbodys) ==
    [title |-> Some(name), label |-> Some(<<"M">>), col1 |-> Some(<<"T">>),
     accesses |-> <<GoodAccess, GoodAccess, GoodAccess>>,
     col3 |-> Some(<<<<"chiku", "5", "nen">>, <<"2", "kai", "ken">>>>),
     table |-> Some(tbodys)]
BadItem(name, tbodys) == [GoodItem(name, tbodys) EXCEPT !.title = None]

\* what the site may answer for item i: no building, two buildings with
\* three rooms, the same with the rent missing from one room
ServedPages(i) ==
    LET t(k, j) == DecStr(i) \o DecStr(k) \o DecStr(j) IN
    {<<>>,
     <<GoodItem(<<"A">>, <<GoodTbody(t(1, 1)), GoodTbody(t(1, 2))>>),
       GoodItem(<<"B">>, <<GoodTbody(t(2, 1))>>)>>,
     <<GoodItem(<<"A">>, <<GoodTbody(t(1, 1)), BadTbody(t(1, 2))>>),
       GoodItem(<<"B">>, <<GoodTbody(t(2, 1))>>)>>}

\* scrape_summo's result on each page the site may answer for item i
Outcomes == [i \in 1..MaxPages |-> [p \in ServedPages(i) |-> ScrapePage(p)]]

(***************************************************************************)
(* The run                                                                 *)
(***************************************************************************)
MainThread == 0
Tasks == 1..MaxPages
Callers == {MainThread} \cup Tasks

\* retry is the local of _fetch_soup; attempts and failed count the requests
\* issued and failed in the call, waited is the sleep completed and not yet
\* followed by a request
IdleFetch == [phase |-> "idle", retry |-> 0, attempts |-> 0, failed |-> 0, waited |-> None]
NoTask == [st |-> "none", page |-> None, out |-> Returned(<<>>)]
FnIdle == [op |-> "none", st |-> "idle", arg |-> <<>>, ret |-> Returned(<<>>)]

InitMain ==
    /\ pc = "init"
    /\ robots \in RobotsAnswers
    /\ url \in InputUrls
    /\ should_turn_page \in BOOLEAN
    /\ should_save_temp \in BOOLEAN
    /\ delay = None
    /\ max_page_no = None
    /\ items = <<>>
    /\ timestamp = None
    /\ fetch = [t \in Callers |-> IdleFetch]
    /\ task = [i \in Tasks |-> NoTask]
    /\ rooms = <<>>
    /\ pbar = None
    /\ errlog = {}
    /\ saved = 0
    /\ tempfiles = {}

Init == InitMain /\ fn = FnIdle

GateOpen(r) == TRUE

\* robots.py 20-21: rp.can_fetch(user_agent, url)
CanFetch(r) == r.can_fetch

\* lines 35-41: Robots(url) reads robots.txt, then the gate
Construct ==
    /\ pc = "init"
    /\ IF ~robots.readable THEN pc' = "aborted" /\ delay' = delay
       ELSE IF CanFetch(robots)
            THEN /\ delay' = Some(IF robots.crawl_delay = None THEN DELAY
                                  ELSE robots.crawl_delay[1])
                 /\ pc' = "ready"
            ELSE pc' = "aborted" /\ delay' = delay
    /\ UNCHANGED <<robots, url, should_turn_page, should_save_temp, max_page_no,
                   items, timestamp, fetch, task, rooms, pbar, errlog, saved,
                   tempfiles, fn>>

\* line 44: a call of _fetch_soup begins
BeginFetch == [phase |-> "sleep", retry |-> 0, attempts |-> 0, failed |-> 0, waited |-> None]

SleepTimeBackoff(d, retry) == d * (retry + 1)

\* line 47: how long an attempt sleeps
SleepTime(d, retry) == d

\* a sleep that ends only while no other caller is at its request, as under
\* a limiter shared by the pool
SleepSerialized(t) ==
    /\ fetch[t].phase = "sleep"
    /\ \A u \in Callers \ {t} : fetch[u].phase # "request"
    /\ fetch' = [fetch EXCEPT ![t].phase = "request",
                              ![t].waited = Some(SleepTime(delay[1], fetch[t].retry))]
    /\ UNCHANGED <<pc, robots, url, should_turn_page, should_save_temp, delay,
                   max_page_no, items, timestamp, task, rooms, pbar, errlog,
                   saved, tempfiles, fn>>

\* line 47: time.sleep(self.delay) returns
Sleep(t) ==
    /\ fetch[t].phase = "sleep"
    /\ fetch' = [fetch EXCEPT ![t].phase = "request",
                              ![t].waited = Some(SleepTime(delay[1], fetch[t].retry))]
    /\ UNCHANGED <<pc, robots, url, should_turn_page, should_save_temp, delay,
                   max_page_no, items, timestamp, task, rooms, pbar, errlog,
                   saved, tempfiles, fn>>

\* lines 52-60: after a RequestException
AfterFailureOffByOne(f) ==
    IF f.retry <= MAX_RETRIES
    THEN [f EXCEPT !.retry = f.retry + 1, !.phase = "sleep"]
    ELSE [f EXCEPT !.phase = "raised"]

AfterFailure(f) ==
    IF f.retry < MAX_RETRIES
    THEN [f EXCEPT !.retry = f.retry + 1, !.phase = "sleep"]
    ELSE [f EXCEPT !.phase = "raised"]

\* lines 48-60: one requests.get with raise_for_status, and what follows
Request(t) ==
    /\ fetch[t].phase = "request"
    /\ LET f == [fetch[t] EXCEPT !.attempts = fetch[t].attempts + 1, !.waited = None] IN
       \/ fetch' = [fetch EXCEPT ![t] = [f EXCEPT !.phase = "ok"]]
       \/ fetch' = [fetch EXCEPT ![t] = AfterFailure([f EXCEPT !.failed = f.failed + 1])]
    /\ UNCHANGED <<pc, robots, url, should_turn_page, should_save_temp, delay,
                   max_page_no, items, timestamp, task, rooms, pbar, errlog,
                   saved, tempfiles, fn>>

\* lines 241-249: scrape() begins
ScrapeBegin ==
    /\ pc = "ready"
    /\ IF should_turn_page
       THEN /\ pc' = "plan"
            /\ fetch' = [fetch EXCEPT ![MainThread] = BeginFetch]
            /\ UNCHANGED <<items, pbar>>
       ELSE /\ items' = SingleItem(url)
            /\ pbar' = Some([n |-> 0, total |-> 1])
            /\ pc' = "submit"
            /\ UNCHANGED fetch
    /\ UNCHANGED <<robots, url, should_turn_page, should_save_temp, delay,
                   max_page_no, timestamp, task, rooms, errlog, saved,
                   tempfiles, fn>>

\* lines 82-91, 244-252: page 1 arrived; the page count and the items
PlanDone ==
    /\ pc = "plan"
    /\ fetch[MainThread].phase = "ok"
    /\ \E pagination \in PlanPaginations :
          LET r == GetMaxPageNo(pagination) IN
          IF r.exc # ""
          THEN pc' = "aborted" /\ UNCHANGED <<max_page_no, items, pbar>>
          ELSE /\ max_page_no' = Some(r.val)
               /\ items' = BuildItems(url, r.val)
               /\ pbar' = Some([n |-> 0, total |-> r.val])
               /\ pc' = "submit"
    /\ fetch' = [fetch EXCEPT ![MainThread] = IdleFetch]
    /\ UNCHANGED <<robots, url, should_turn_page, should_save_temp, delay,
                   timestamp, task, rooms, errlog, saved, tempfiles, fn>>

\* a planning failure answered by a single task for the input URL
PlanFailedSinglePage ==
    /\ pc = "plan"
    /\ fetch[MainThread].phase = "raised"
    /\ items' = SingleItem(url)
    /\ pbar' = Some([n |-> 0, total |-> 1])
    /\ pc' = "submit"
    /\ fetch' = [fetch EXCEPT ![MainThread] = IdleFetch]
    /\ UNCHANGED <<robots, url, should_turn_page, should_save_temp, delay,
                   max_page_no, timestamp, task, rooms, errlog, saved,
                   tempfiles, fn>>

\* line 60 reaching scrape(): the planning fetch gave up
PlanFailed ==
    /\ pc = "plan"
    /\ fetch[MainThread].phase = "raised"
    /\ pc' = "aborted"
    /\ fetch' = [fetch EXCEPT ![MainThread] = IdleFetch]
    /\ UNCHANGED <<robots, url, should_turn_page, should_save_temp, delay,
                   max_page_no, items, timestamp, task, rooms, pbar, errlog,
                   saved, tempfiles, fn>>

Submitted == {i \in Tasks : task[i].st # "none"}
Running == {i \in Tasks : task[i].st \in {"running", "stamping"}}
Queued == {i \in Tasks : task[i].st = "queued"}

\* lines 255-257: executor.submit of the next item
Submit ==
    /\ pc = "submit"
    /\ Cardinality(Submitted) < Len(items)
    /\ task' = [task EXCEPT ![Cardinality(Submitted) + 1].st = "queued"]
    /\ UNCHANGED <<pc, robots, url, should_turn_page, should_save_temp, delay,
                   max_page_no, items, timestamp, fetch, rooms, pbar, errlog,
                   saved, tempfiles, fn>>

\* line 259: every item is submitted; as_completed begins
AllSubmitted ==
    /\ pc = "submit"
    /\ Cardinality(Submitted) = Len(items)
    /\ pc' = "collect"
    /\ UNCHANGED <<robots, url, should_turn_page, should_save_temp, delay,
                   max_page_no, items, timestamp, fetch, task, rooms, pbar,
                   errlog, saved, tempfiles, fn>>

\* a free pool worker takes the oldest queued item and enters scrape_summo;
\* MAX_WORKERS = None leaves the pool size to the platform, and a pool with
\* fewer workers than items only removes interleavings
StartTask(i) ==
    /\ task[i].st = "queued"
    /\ \A j \in Queued : i <= j
    /\ Cardinality(Running) < PoolSize
    /\ task' = [task EXCEPT ![i].st = "running"]
    /\ fetch' = [fetch EXCEPT ![i] = BeginFetch]
    /\ UNCHANGED <<pc, robots, url, should_turn_page, should_save_temp, delay,
                   max_page_no, items, timestamp, rooms, pbar, errlog, saved,
                   tempfiles, fn>>

\* scrape_summo fetching the page again when extraction or normalization raised
TaskDoneRetrying(i) ==
    /\ task[i].st = "running"
    /\ fetch[i].phase = "ok"
    /\ \E page \in ServedPages(i) :
          LET r == Outcomes[i][page] IN
          IF r.exc # ""
          THEN /\ fetch' = [fetch EXCEPT ![i] = BeginFetch]
               /\ UNCHANGED <<task, tempfiles>>
          ELSE /\ fetch' = [fetch EXCEPT ![i] = IdleFetch]
               /\ IF should_save_temp /\ timestamp = None
                  THEN /\ task' = [task EXCEPT ![i] = [st |-> "stamping",
                                                       page |-> Some(page), out |-> r]]
                       /\ UNCHANGED tempfiles
                  ELSE /\ task' = [task EXCEPT ![i] = [st |-> "done",
                                                       page |-> Some(page), out |-> r]]
                       /\ tempfiles' = IF should_save_temp
                                        THEN tempfiles \cup {items[i].page_no}
                                        ELSE tempfiles
    /\ UNCHANGED <<pc, robots, url, should_turn_page, should_save_temp, delay,
                   max_page_no, items, timestamp, rooms, pbar, errlog, saved, fn>>

\* lines 62, 97-128, 211, 231-238: the page of item i arrived; the rest of
\* scrape_summo.  A worker that saves its page and finds self.timestamp unset
\* at line 211 stops before the assignment of line 212, where other workers
\* may run
TaskDone(i) ==
    /\ task[i].st = "running"
    /\ fetch[i].phase = "ok"
    /\ \E page \in ServedPages(i) :
          LET r == Outcomes[i][page] IN
          IF r.exc = "" /\ should_save_temp /\ timestamp = None
          THEN /\ task' = [task EXCEPT ![i] = [st |-> "stamping", page |-> Some(page),
                                               out |-> r]]
               /\ UNCHANGED tempfiles
          ELSE /\ task' = [task EXCEPT ![i] = [st |-> "done", page |-> Some(page),
                                               out |-> r]]
               /\ tempfiles' = IF r.exc = "" /\ should_save_temp
                                THEN tempfiles \cup {items[i].page_no} ELSE tempfiles
    /\ fetch' = [fetch EXCEPT ![i] = IdleFetch]
    /\ UNCHANGED <<pc, robots, url, should_turn_page, should_save_temp, delay,
                   max_page_no, items, timestamp, rooms, pbar, errlog, saved, fn>>

\* lines 212-227, 236: the worker of item i, having found self.timestamp unset,
\* assigns it, whatever another worker assigned meanwhile, and saves its page
Stamp(i) ==
    /\ task[i].st = "stamping"
    /\ timestamp' = Some(i)
    /\ tempfiles' = tempfiles \cup {items[i].page_no}
    /\ task' = [task EXCEPT ![i].st = "done"]
    /\ UNCHANGED <<pc, robots, url, should_turn_page, should_save_temp, delay,
                   max_page_no, items, fetch, rooms, pbar, errlog, saved, fn>>

\* line 60 reaching the future: the fetch of item i gave up
TaskFailed(i) ==
    /\ task[i].st = "running"
    /\ fetch[i].phase = "raised"
    /\ task' = [task EXCEPT ![i] = [st |-> "done", page |-> None,
                                    out |-> Raised("RequestException")]]
    /\ fetch' = [fetch EXCEPT ![i] = IdleFetch]
    /\ UNCHANGED <<pc, robots, url, should_turn_page, should_save_temp, delay,
                   max_page_no, items, timestamp, rooms, pbar, errlog, saved,
                   tempfiles, fn>>

ConcatOverwriting(agg, rows) == rows

\* the new rows put before the aggregate
ConcatPrepending(agg, rows) == rows \o agg

\* line 263: pd.concat([rooms, future.result()["room"]])
Concat(agg, rows) == agg \o rows

UpdateOnSuccessOnly(bar, out) ==
    IF out.exc = "" THEN Some([bar[1] EXCEPT !.n = bar[1].n + 1]) ELSE bar

\* line 267: pbar.update(1), whatever the future of the item holds
Update(bar, out) == Some([bar[1] EXCEPT !.n = bar[1].n + 1])

\* lines 259-267 with future.result() called on a failed future
HandleReraising(i) ==
    /\ pc = "collect"
    /\ task[i].st = "done"
    /\ IF task[i].out.exc = ""
       THEN /\ rooms' = Concat(rooms, task[i].out.val)
            /\ pbar' = Update(pbar, task[i].out)
            /\ pc' = pc
       ELSE /\ pc' = "aborted"
            /\ UNCHANGED <<rooms, pbar>>
    /\ task' = [task EXCEPT ![i].st = "handled"]
    /\ UNCHANGED <<robots, url, should_turn_page, should_save_temp, delay,
                   max_page_no, items, timestamp, fetch, saved, tempfiles,
                   errlog, fn>>

\* lines 259-267: as_completed yields the future of item i
Handle(i) ==
    /\ pc = "collect"
    /\ task[i].st = "done"
    /\ IF task[i].out.exc = ""
       THEN rooms' = Concat(rooms, task[i].out.val) /\ UNCHANGED errlog
       ELSE errlog' = errlog \cup {items[i].url} /\ UNCHANGED rooms
    /\ pbar' = Update(pbar, task[i].out)
    /\ task' = [task EXCEPT ![i].st = "handled"]
    /\ UNCHANGED <<pc, robots, url, should_turn_page, should_save_temp, delay,
                   max_page_no, items, timestamp, fetch, saved, tempfiles, fn>>

\* line 269: every future is handled; the final save_csv
Save ==
    /\ pc = "collect"
    /\ \A i \in 1..Len(items) : task[i].st = "handled"
    /\ timestamp' = IF timestamp = None THEN Some(MainThread) ELSE timestamp
    /\ saved' = saved + 1
    /\ pc' = "done"
    /\ UNCHANGED <<robots, url, should_turn_page, should_save_temp, delay,
                   max_page_no, items, fetch, task, rooms, pbar, errlog,
                   tempfiles, fn>>

Next ==
    \/ Construct
    \/ ScrapeBegin
    \/ PlanDone
    \/ PlanFailed
    \/ Submit
    \/ AllSubmitted
    \/ Save
    \/ \E t \in Callers : Sleep(t) \/ Request(t)
    \/ \E i \in Tasks : StartTask(i) \/ TaskDone(i) \/ Stamp(i) \/ TaskFailed(i)
                          \/ Handle(i)

Spec == Init /\ [][Next]_vars

\* each thread of control is eventually scheduled; every sleep and every
\* request (TIMEOUT) ends
InitFair == Init /\ url = <<"s">> /\ robots.crawl_delay = None

FairSpec ==
    /\ InitFair /\ [][Next]_vars
    /\ WF_vars(Construct \/ ScrapeBegin \/ PlanDone \/ PlanFailed \/ Submit
               \/ AllSubmitted \/ Save \/ \E i \in Tasks : Handle(i))
    /\ \A t \in Callers : WF_vars(Sleep(t) \/ Request(t))
    /\ \A i \in Tasks : WF_vars(StartTask(i) \/ TaskDone(i) \/ Stamp(i) \/ TaskFailed(i))

(***************************************************************************)
(* Properties of the run                                                   *)
(***************************************************************************)
Built == pc \in {"submit", "collect", "done"}
Finished(i) == task[i].st \in {"done", "handled"}
Succeeded(i) == Finished(i) /\ task[i].out.exc = ""
Failing(i) == Finished(i) /\ task[i].out.exc # ""
Count(seq, x) == Cardinality({k \in 1..Len(seq) : seq[k] = x})
RECURSIVE SumOver(_, _)
SumOver(S, f) ==
    IF S = {} THEN 0
    ELSE LET i == CHOOSE j \in S : TRUE IN f[i] + SumOver(S \ {i}, f)

\* C1: when the robots policy denies the URL, no page request is ever issued
\* (neither the planning fetch nor a task's) and no task is dispatched: the
\* run stops in the constructor.
C1_DeniedNoFetch ==
    (robots.readable /\ ~robots.can_fetch) =>
        /\ pc \in {"init", "aborted"}
        /\ \A t \in Callers : fetch[t].phase = "idle" /\ fetch[t].attempts = 0
        /\ \A i \in Tasks : task[i].st = "none"
        /\ items = <<>>

C1_Witness == robots.readable /\ ~robots.can_fetch /\ pc = "aborted"

\* C2: one call of the fetcher issues at most 6 requests; it returns after
\* k failures (k <= 5) and one success, k + 1 requests in all, and raises
\* after exactly 6 failed requests.
C2_AtMostSixAttempts ==
    \A t \in Callers :
        /\ fetch[t].attempts <= 6
        /\ fetch[t].phase \in {"sleep", "request"} =>
               fetch[t].failed <= 5 /\ fetch[t].attempts = fetch[t].failed
        /\ fetch[t].phase = "ok" =>
               fetch[t].failed <= 5 /\ fetch[t].attempts = fetch[t].failed + 1
        /\ fetch[t].phase = "raised" =>
               fetch[t].failed = 6 /\ fetch[t].attempts = 6

C2_Witness ==
    /\ \E t \in Callers : fetch[t].phase = "raised"
    /\ \E t \in Callers : fetch[t].phase = "ok" /\ fetch[t].failed = 5

ResolvedDelay == IF robots.crawl_delay = None THEN 1 ELSE robots.crawl_delay[1]

\* C3: every step that issues a request, the first of a call included, starts
\* where the caller has completed one sleep of the resolved crawl delay since
\* the call began or its previous request failed; the sleep is the same on
\* every attempt.
C3_WaitBeforeEachRequest ==
    [][\A t \in Callers :
          fetch'[t].attempts > fetch[t].attempts =>
              /\ fetch'[t].attempts = fetch[t].attempts + 1
              /\ fetch[t].waited = Some(ResolvedDelay)
              /\ fetch'[t].waited = None]_vars

C3_Witness ==
    \E t \in Callers :
        /\ fetch[t].phase = "request" /\ fetch[t].retry = 2
        /\ fetch[t].waited = Some(2)

\* C4: once the run has finished, the aggregate holds exactly the rows of the
\* tasks that succeeded, each as often as those tasks produced it, and the
\* failures logged are exactly the URLs of the tasks that failed.
C4_AggregateExact ==
    pc = "done" =>
        LET n == Len(items)
            ok == {i \in 1..n : Succeeded(i)}
            all == {rooms[k] : k \in 1..Len(rooms)}
                   \cup UNION {{task[i].out.val[k] : k \in 1..Len(task[i].out.val)} : i \in ok}
        IN /\ \A i \in 1..n : task[i].st = "handled"
           /\ \A r \in all :
                 Count(rooms, r) = SumOver(ok, [i \in ok |-> Count(task[i].out.val, r)])
           /\ errlog = {items[i].url : i \in (1..n) \ ok}

C4_Witness ==
    /\ pc = "done"
    /\ \E i, j \in 1..Len(items) :
          /\ Succeeded(i) /\ Len(task[i].out.val) = 3
          /\ Failing(j) /\ task[j].out.exc = "RequestException"
    /\ Len(rooms) = 3

\* C5: once the task set is built the run always reaches the final save,
\* exactly once, with every task handled, whichever tasks fail.
C5_RunCompletes ==
    /\ [](Built => <>(/\ pc = "done" /\ saved = 1
                      /\ \A i \in 1..Len(items) : task[i].st = "handled"))
    /\ [](saved <= 1)

C5_Witness ==
    /\ pc = "done" /\ saved = 1 /\ Len(items) = 2 /\ rooms = <<>>
    /\ \A i \in 1..Len(items) : Failing(i)

HandledCount == Cardinality({i \in Tasks : task[i].st = "handled"})

\* C6: the progress counter starts at 0, never decreases, goes up by exactly
\* 1 with each handled completion (success or failure) and by nothing else,
\* never exceeds the number of tasks and equals it when the run has finished.
C6_ProgressCounter ==
    /\ [](pbar # None =>
            /\ pbar[1].total = Len(items)
            /\ pbar[1].n = HandledCount
            /\ pbar[1].n <= pbar[1].total
            /\ (pc = "done" => pbar[1].n = pbar[1].total))
    /\ [][/\ (pbar = None /\ pbar' # None) => pbar'[1].n = 0
          /\ (pbar # None) =>
                /\ pbar' # None
                /\ pbar'[1].n = pbar[1].n + (HandledCount' - HandledCount)
                /\ HandledCount' - HandledCount \in {0, 1}]_vars

C6_Witness ==
    /\ pc = "done" /\ pbar # None /\ pbar[1].n = 2
    /\ \E i, j \in 1..Len(items) : Succeeded(i) /\ Failing(j)

\* the input URL without its "&page=<digits>" fragments, stated by position
Stripped(u) ==
    LET gone(i) == \/ u[i] = PageTok
                   \/ /\ u[i] \in DigitSet
                      /\ \E j \in 1..(i - 1) :
                            /\ u[j] = PageTok
                            /\ \A k \in (j + 1)..i : u[k] \in DigitSet
        keep == {i \in 1..Len(u) : ~gone(i)}
        nth(k) == CHOOSE i \in keep : Cardinality({j \in keep : j <= i}) = k
    IN [k \in 1..Cardinality(keep) |-> u[nth(k)]]

\* C7: with page turning, the task set is one task per page number
\* 1..max_page_no, the n-th with URL base + "&page=" + n, base being the input
\* URL without its "&page=<n>" fragments; it is complete before any item is
\* submitted to the pool and never changes afterwards.
C7_TaskSet ==
    /\ []((should_turn_page /\ Built) =>
            /\ max_page_no # None
            /\ Len(items) = max_page_no[1]
            /\ \A n \in 1..Len(items) :
                  /\ items[n].url = Stripped(url) \o <<PageTok>> \o DecStr(n)
                  /\ items[n].page_no = Some(DecStr(n)))
    /\ []((\E i \in Tasks : task[i].st # "none") => Built)
    /\ [][Built => items' = items]_vars

C7_Witness ==
    /\ should_turn_page /\ pc = "collect"
    /\ url = <<"s", PageTok, "3", "&o", PageTok>>
    /\ Len(items) = 2
    /\ items[2].url = <<"s", "&o", PageTok, "2">>

\* C10 as claimed: a task whose fetched page lists no building succeeds with
\* zero rows and is not logged as failed.
C10_EmptyPageSucceeds ==
    \A i \in Tasks :
        (Finished(i) /\ task[i].page = Some(<<>>)) =>
            /\ task[i].out = Returned(<<>>)
            /\ items[i].url \notin errlog

(***************************************************************************)
(* The page functions on their own: one application per behaviour          *)
(***************************************************************************)
MaxLinks == 3
MaxItems == 2
MaxRooms == 2

LinkTexts == {<<>>, <<"0">>, <<"1">>, <<"2">>, <<"1", "2">>, <<"0", "3">>,
              NextText, <<"2", "n">>, <<" ", "3">>}
OneToTwelve == [i \in 1..12 |-> DecStr(i)]
LinkInputs ==
    {None}
    \cup {Some(l) : l \in UNION {[1..n -> LinkTexts] : n \in 0..MaxLinks}}
    \cup {Some(OneToTwelve), Some(OneToTwelve \o <<NextText>>),
          Some(<<NextText>> \o OneToTwelve \o <<NextText>>)}

\* an item of a test page: its name, its number of rooms, and what is missing
\* (bad = 0: nothing, bad = j: the rent of room j, bad = -1: the title)
ItemShapes ==
    {[name |-> nm, n |-> n, bad |-> b] :
        nm \in {<<"A">>, <<" ", "B", " ">>}, n \in 0..MaxRooms, b \in (-1)..MaxRooms}
MakeItem(sh, k) ==
    LET tb == [j \in 1..sh.n |->
                 IF sh.bad = j THEN BadTbody(DecStr(k) \o DecStr(j))
                 ELSE GoodTbody(DecStr(k) \o DecStr(j))]
    IN IF sh.bad = -1 THEN BadItem(sh.name, tb) ELSE GoodItem(sh.name, tb)
PageInputs ==
    LET shapes == {sh \in ItemShapes : sh.bad <= sh.n}
        seqs == UNION {[1..n -> shapes] : n \in 0..MaxItems}
    IN {[k \in 1..Len(q) |-> MakeItem(q[k], k)] : q \in seqs}

\* raw rows as get_rooms_data hands them to cleaning_rooms_data: the access
\* slots and the floor and money texts vary, the other fields are fixed
MaxBatch == 2
FarAccess == <<"to", "ho", "kenn", "gai">>
BusAccess == <<"B", " ", "ho", "3", "fun">>
AccessSlots ==
    {<<GoodAccess, GoodAccess, GoodAccess>>,
     <<GoodAccess, GoodAccess, <<>>>>,
     <<GoodAccess, FarAccess, GoodAccess>>,
     <<FarAccess, FarAccess, FarAccess>>,
     <<GoodAccess, BusAccess, GoodAccess>>}
MoneyTexts ==
    {[rent |-> <<"3", "man", "en">>, admin |-> <<"3", "0", "0", "0", "en">>,
      deposit |-> <<"-">>, gratuity |-> <<>>, floor |-> <<"2", "kai">>],
     [rent |-> <<"-">>, admin |-> <<"-">>,
      deposit |-> <<>>, gratuity |-> <<"7", ".", "5", "man", "en">>,
      floor |-> <<"1", "-", "2", "kai">>],
     [rent |-> <<>>, admin |-> <<>>,
      deposit |-> <<"1", "2", "man", "en">>, gratuity |-> <<"-">>,
      floor |-> <<"-">>],
     [rent |-> <<"1", "0", "man", "en">>, admin |-> <<"5", "0", "0", "en">>,
      deposit |-> <<"x">>, gratuity |-> <<"1", "man", "en">>,
      floor |-> <<"1", "-", "2", "-", "3", "kai">>]}
BaseRow == GetRoomsData(<<GoodItem(<<"A">>, <<GoodTbody(<<"1">>)>>)>>).val[1]
RowInputs ==
    {[BaseRow EXCEPT !.access1 = a[1], !.access2 = a[2], !.access3 = a[3],
                     !.floor = m.floor, !.rent = m.rent, !.admin = m.admin,
                     !.deposit = m.deposit, !.gratuity = m.gratuity] :
        a \in AccessSlots, m \in MoneyTexts}
BatchInputs == UNION {[1..n -> RowInputs] : n \in 0..MaxBatch}

FnCalls ==
    {[op |-> "get_max_page_no", st |-> "called", arg |-> a, ret |-> Returned(<<>>)] :
        a \in LinkInputs}
    \cup {[op |-> "get_rooms_data", st |-> "called", arg |-> a, ret |-> Returned(<<>>)] :
        a \in PageInputs}
    \cup {[op |-> "cleaning_rooms_data", st |-> "called", arg |-> a,
            ret |-> Returned(<<>>)] : a \in BatchInputs}

InitFn ==
    /\ pc = "init"
    /\ robots = [readable |-> FALSE, can_fetch |-> FALSE, crawl_delay |-> None]
    /\ url = <<"s">>
    /\ should_turn_page = FALSE
    /\ should_save_temp = FALSE
    /\ delay = None
    /\ max_page_no = None
    /\ items = <<>>
    /\ timestamp = None
    /\ fetch = [t \in Callers |-> IdleFetch]
    /\ task = [i \in Tasks |-> NoTask]
    /\ rooms = <<>>
    /\ pbar = None
    /\ errlog = {}
    /\ saved = 0
    /\ tempfiles = {}
    /\ fn \in FnCalls

\* lines 82-91 on a fetched page
ApplyGetMaxPageNo ==
    /\ fn.op = "get_max_page_no" /\ fn.st = "called"
    /\ fn' = [fn EXCEPT !.st = "returned", !.ret = GetMaxPageNo(fn.arg)]
    /\ UNCHANGED mainVars

\* lines 97-128 on a fetched page
ApplyGetRoomsData ==
    /\ fn.op = "get_rooms_data" /\ fn.st = "called"
    /\ fn' = [fn EXCEPT !.st = "returned", !.ret = GetRoomsData(fn.arg)]
    /\ UNCHANGED mainVars

\* lines 130-203 on the rows of one page
ApplyCleaningRoomsData ==
    /\ fn.op = "cleaning_rooms_data" /\ fn.st = "called"
    /\ fn' = [fn EXCEPT !.st = "returned", !.ret = CleaningRoomsData(fn.arg)]
    /\ UNCHANGED mainVars

NextFn == ApplyGetMaxPageNo \/ ApplyGetRoomsData \/ ApplyCleaningRoomsData

SpecFn == InitFn /\ [][NextFn]_vars

\* the number a digit text writes, by place value
PlaceValue(t) ==
    SumOver(1..Len(t), [k \in 1..Len(t) |-> DigitVal(t[k]) * Pow10(Len(t) - k)])

\* C8: max_page_no is the number of the last link, in document order, whose
\* text is all digits, and 1 when no link has such a text; the links 1..12
\* give 12.
C8_MaxPageNo ==
    (fn.op = "get_max_page_no" /\ fn.st = "returned" /\ fn.arg # None) =>
        LET links == fn.arg[1]
            numeric == {i \in 1..Len(links) :
                           /\ links[i] # <<>>
                           /\ \A k \in 1..Len(links[i]) : links[i][k] \in DigitSet}
            last == CHOOSE i \in numeric : \A j \in numeric : j <= i
        IN /\ fn.ret.exc = ""
           /\ fn.ret.val = IF numeric = {} THEN 1 ELSE PlaceValue(links[last])
           /\ (links = OneToTwelve => fn.ret.val = 12)

C8_Witness ==
    /\ fn.op = "get_max_page_no" /\ fn.st = "returned"
    /\ fn.arg = Some(<<NextText>> \o OneToTwelve \o <<NextText>>)
    /\ fn.ret = Returned(12)

BuildingFields(r) ==
    <<r.name, r.category, r.address, r.access1, r.access2, r.access3, r.age, r.stories>>

\* C9: when extraction returns, it returns as many rows as the items of the
\* page have room entries in all, the rows of the k-th item following those
\* of the items before it, and the rows of one item agree on every
\* building-level field.
C9_RowsPerRoom ==
    (fn.op = "get_rooms_data" /\ fn.st = "returned" /\ fn.ret.exc = "") =>
        LET page == fn.arg
            rows == fn.ret.val
            nrooms == [k \in 1..Len(page) |-> Len(page[k].table[1])]
            off(k) == SumOver(1..(k - 1), nrooms)
        IN /\ Len(rows) = SumOver(1..Len(page), nrooms)
           /\ \A k \in 1..Len(page) : \A i, j \in 1..nrooms[k] :
                 BuildingFields(rows[off(k) + i]) = BuildingFields(rows[off(k) + j])

C9_Witness ==
    /\ fn.op = "get_rooms_data" /\ fn.st = "returned" /\ fn.ret.exc = ""
    /\ Len(fn.arg) = 2
    /\ Len(fn.arg[1].table[1]) = 2 /\ Len(fn.arg[2].table[1]) = 1
    /\ fn.arg[1].title # fn.arg[2].title
    /\ Len(fn.ret.val) = 3

(***************************************************************************)
(* cleaning_rooms_data on the rows of one page                             *)
(***************************************************************************)
Cleaned == fn.op = "cleaning_rooms_data" /\ fn.st = "returned"

\* C11: normalization never fails a page: for every batch of raw rows,
\* also one where no row's access text holds " ho" or "/" and one whose
\* floor text holds no "-", it returns one normalized row per raw row, row j
\* made from raw row j.
C11_NormalizationTotal ==
    Cleaned =>
        /\ fn.ret.exc = ""
        /\ Len(fn.ret.val) = Len(fn.arg)
        /\ \A j \in 1..Len(fn.arg) : fn.ret.val[j].url = fn.arg[j].url

\* t is "<line>/<station> ho<N>fun": the parts it names, else <<>>
AccessForm(t) ==
    LET i == Find(t, 1, <<"/">>)
        w == Find(t, 1, Walk)
        n == SubSeq(t, w + 2, Len(t) - 1)
    IN IF /\ i > 1 /\ w > i + 1
          /\ Len(t) >= w + 3 /\ t[Len(t)] = "fun"
          /\ \A k \in 1..Len(n) : n[k] \in DigitSet
       THEN <<[line |-> SubSeq(t, 1, i - 1), station |-> SubSeq(t, i + 1, w - 1),
               minutes |-> PlaceValue(n)]>>
       ELSE <<>>

\* C12: an access text "<line>/<station> ho<N>fun" normalizes to the triple
\* (line, station, N) with N a number, and a text of any other form to
\* (null, null, null), in each of the three access slots independently.
C12_AccessTriples ==
    (Cleaned /\ fn.ret.exc = "") =>
        \A j \in 1..Len(fn.arg) : \A k \in 1..3 :
            LET form == AccessForm(AccessOf(fn.arg[j], k))
                got == fn.ret.val[j].access[k]
            IN IF form = <<>>
               THEN got = [line |-> None, station |-> None, walk |-> None]
               ELSE got = [line |-> Some(form[1].line),
                           station |-> Some(form[1].station),
                           walk |-> Some([m |-> form[1].minutes, s |-> 0])]

\* t is "<N>" followed by unit, N all digits: <<N>>, else <<>>
Amount(t, unit) ==
    LET n == SubSeq(t, 1, Len(t) - Len(unit)) IN
    IF /\ Len(t) > Len(unit)
       /\ MatchAt(t, Len(t) - Len(unit) + 1, unit)
       /\ \A k \in 1..Len(n) : n[k] \in DigitSet
    THEN <<PlaceValue(n)>> ELSE <<>>

Zero == [m |-> 0, s |-> 0]
MoneyAsClaimed(t, v, unit, factor) ==
    /\ Amount(t, unit) # <<>> => v = Some([m |-> Amount(t, unit)[1] * factor, s |-> 0])
    /\ t = <<"-">> => v = Some(Zero)
    /\ t = <<>> => v = None

\* C13: in every normalized row, rent, deposit and key money "<N>man en"
\* are N * 10000, "-" is 0 and the empty text is null; the administration
\* fee "<N>en" is N and "-" is 0, with no multiplier; 0 and null differ.
C13_Money ==
    (Cleaned /\ fn.ret.exc = "") =>
        /\ Some(Zero) # None
        /\ \A j \in 1..Len(fn.arg) :
              LET r == fn.arg[j]
                  c == fn.ret.val[j]
              IN /\ MoneyAsClaimed(r.rent, c.rent, <<"man", "en">>, 10000)
                 /\ MoneyAsClaimed(r.deposit, c.deposit, <<"man", "en">>, 10000)
                 /\ MoneyAsClaimed(r.gratuity, c.gratuity, <<"man", "en">>, 10000)
                 /\ MoneyAsClaimed(r.admin, c.admin, <<"en">>, 1)

C13_Witness ==
    /\ Cleaned /\ fn.ret.exc = "" /\ Len(fn.arg) = 2
    /\ fn.arg[1].rent = <<"3", "man", "en">> /\ fn.ret.val[1].rent = Some([m |-> 30000, s |-> 0])
    /\ fn.arg[1].deposit = <<"-">> /\ fn.ret.val[1].deposit = Some(Zero)
    /\ fn.arg[1].gratuity = <<>> /\ fn.ret.val[1].gratuity = None
    /\ fn.arg[1].admin = <<"3", "0", "0", "0", "en">>
    /\ fn.ret.val[1].admin = Some([m |-> 3000, s |-> 0])
    /\ fn.arg[2].admin = <<"-">> /\ fn.ret.val[2].admin = Some(Zero)

(***************************************************************************)
(* Pages with a missing sub-element                                        *)
(***************************************************************************)
WholeTbody(tb) ==
    /\ Len(tb.tds) >= 3
    /\ tb.rent # None /\ tb.administration # None /\ tb.deposit # None
    /\ tb.gratuity # None /\ tb.madori # None /\ tb.menseki # None
    /\ tb.link # None
WholeItem(item) ==
    /\ item.title # None /\ item.label # None /\ item.col1 # None
    /\ Len(item.accesses) >= 3
    /\ item.col3 # None /\ Len(item.col3[1]) >= 2
    /\ item.table # None
\* the page without the items and room entries that miss a sub-element
WithoutDefects(page) ==
    LET items1 == SelectSeq(page, WholeItem) IN
    [k \in 1..Len(items1) |->
        [items1[k] EXCEPT !.table = Some(SelectSeq(items1[k].table[1], WholeTbody))]]

\* C14: when an item or room entry of a fetched page misses an expected
\* sub-element, only the affected rows are skipped: the task of the page
\* succeeds with the rows of every other entry and is not recorded as failed.
C14_DefectSkipsRowOnly ==
    \A i \in Tasks :
        (Finished(i) /\ task[i].page # None
            /\ WithoutDefects(task[i].page[1]) # task[i].page[1]) =>
        /\ task[i].out.exc = ""
        /\ task[i].out.val = ScrapePage(WithoutDefects(task[i].page[1])).val
        /\ items[i].url \notin errlog

\* C15: when page 1 is fetched and is a listing page without a pagination
\* control, page discovery returns max_page_no = 1 instead of failing, so
\* that the run goes on with a single page task.
C15_NoPaginationIsOnePage ==
    (fn.op = "get_max_page_no" /\ fn.st = "returned" /\ fn.arg = None) =>
        fn.ret = Returned(1)

(***************************************************************************)
(* State shared between the threads of the pool                            *)
(***************************************************************************)
WorkerStep(i) ==
    /\ task[i].st \in {"running", "stamping"}
    /\ task'[i] # task[i] \/ fetch'[i] # fetch[i]

\* C16: a step of a pool worker writes no state that another worker reads or
\* writes, with intermediate saving too: it leaves self.timestamp and the
\* state of every other task as they are; and the policy and the delay are
\* never written once the constructor has resolved them.
C16_WorkersShareNothing ==
    [][/\ \A i \in Tasks : WorkerStep(i) =>
             /\ timestamp' = timestamp
             /\ \A j \in Tasks \ {i} : task'[j] = task[j] /\ fetch'[j] = fetch[j]
       /\ delay # None => (delay' = delay /\ robots' = robots)]_vars

(***************************************************************************)
(* Order of the aggregate                                                  *)
(***************************************************************************)
\* the raw rows of each page the site may answer for item i, as extracted
RawRows == [i \in 1..MaxPages |-> [p \in ServedPages(i) |-> GetRoomsData(p)]]

\* the orders in which the tasks of S may have been handled
Orders(S) ==
    {q \in [1..Cardinality(S) -> S] : \A a, b \in 1..Cardinality(S) : q[a] = q[b] => a = b}
RECURSIVE Blocks(_, _)
Blocks(q, k) ==
    IF k > Len(q) THEN <<>> ELSE task[q[k]].out.val \o Blocks(q, k + 1)

\* C17: the aggregate is the rows of the successful pages handled so far,
\* one unbroken block per page, the blocks in the order in which the
\* completions were handled (each block is appended at the end when its
\* completion is handled), and each block in the page's extraction order.
C17_BlocksInHandlingOrder ==
    /\ [](\E q \in Orders({i \in Tasks : task[i].st = "handled" /\ task[i].out.exc = ""}) :
            rooms = Blocks(q, 1))
    /\ [][\A i \in Tasks : (task[i].st = "done" /\ task'[i].st = "handled") =>
            rooms' = IF task[i].out.exc = "" THEN rooms \o task[i].out.val ELSE rooms]_vars
    /\ [](\A i \in Tasks : Succeeded(i) =>
            LET raw == RawRows[i][task[i].page[1]].val IN
            /\ Len(task[i].out.val) = Len(raw)
            /\ \A j \in 1..Len(raw) : task[i].out.val[j].url = raw[j].url)

C17_Witness ==
    /\ pc = "done" /\ Len(items) = 2
    /\ Succeeded(1) /\ Succeeded(2)
    /\ Len(task[1].out.val) = 3 /\ Len(task[2].out.val) = 3
    /\ rooms = task[2].out.val \o task[1].out.val

(***************************************************************************)
(* The crawl delay in the pool                                             *)
(***************************************************************************)
AtRequest == {i \in Tasks : task[i].st = "running" /\ fetch[i].phase = "request"}

\* C18: the crawl delay is waited by each worker for each of its fetches and
\* by no shared limiter: a worker in its sleep can always end it, whatever
\* the other workers do; no step of one caller touches the fetch of another;
\* and a worker at its request has completed one sleep of the full resolved
\* delay of its own.  (The witness: as many workers as the pool holds are at
\* their request at once, no sleep between their requests.)
C18_DelayPerWorker ==
    /\ [](\A t \in Callers : fetch[t].phase = "sleep" => ENABLED Sleep(t))
    /\ [][\A t, u \in Callers :
            t # u => (fetch'[t] = fetch[t] \/ fetch'[u] = fetch[u])]_vars
    /\ [](\A t \in Callers : fetch[t].phase = "request" =>
            fetch[t].waited = Some(ResolvedDelay))

C18_Witness ==
    /\ PoolSize >= 2
    /\ Cardinality(AtRequest) = PoolSize
    /\ \A i \in AtRequest : fetch[i].waited = Some(ResolvedDelay)
    /\ \E i, j \in AtRequest : i # j /\ fetch[i].attempts = 1 /\ fetch[j].attempts = 0

(***************************************************************************)
(* Planning                                                                *)
(***************************************************************************)
\* C19: with page turning, a planning fetch that has used up its retries
\* aborts the run, and a run aborted in planning (by the fetch or by the
\* parse of page 1) has built no task set: no task was dispatched, the
\* progress counter was never created, nothing was saved, and it stays so.
\* Without page turning the main thread never fetches, and the task set is
\* one task with the input URL as given.
C19_PlanningAbort ==
    /\ [][(pc = "plan" /\ fetch[MainThread].phase = "raised") => pc' = "aborted"]_vars
    /\ [](pc = "aborted" =>
            /\ items = <<>> /\ max_page_no = None
            /\ \A i \in Tasks : task[i] = NoTask /\ fetch[i] = IdleFetch
            /\ pbar = None /\ rooms = <<>>
            /\ saved = 0 /\ tempfiles = {})
    /\ [][pc = "aborted" => pc' = "aborted"]_vars
    /\ [](~should_turn_page =>
            /\ pc # "plan" /\ fetch[MainThread] = IdleFetch
            /\ Built => (Len(items) = 1 /\ items[1].url = url))

C19_Witness ==
    /\ should_turn_page /\ delay # None
    /\ pc = "aborted"
    /\ items = <<>> /\ pbar = None /\ saved = 0

(***************************************************************************)
(* What is retried                                                         *)
(***************************************************************************)
Fetched(i) == task[i].st \in {"stamping", "done", "handled"}

\* C20: only failed requests are retried.  A task whose request succeeded
\* issues no further request: its next step ends its fetch and records the
\* outcome of extraction and normalization, an exception included, and from
\* then on its fetch stays idle; so a task has at most one successful fetch.
\* A task whose page arrived and whose extraction or normalization raised is
\* logged as failed when its completion is handled.
C20_NoRetryAfterSuccess ==
    /\ [][\A i \in Tasks : fetch[i].phase = "ok" =>
            \/ fetch'[i] = fetch[i]
            \/ fetch'[i] = IdleFetch /\ task'[i].st \in {"stamping", "done"}
                                     /\ task'[i].page # None]_vars
    /\ [][\A i \in Tasks : fetch'[i].phase = "ok" /\ fetch[i].phase # "ok" =>
            task[i].st = "running" /\ task[i].page = None]_vars
    /\ [][\A i \in Tasks : Fetched(i) =>
            /\ task'[i].st \in {"stamping", "done", "handled"}
            /\ task'[i].page = task[i].page /\ task'[i].out = task[i].out
            /\ fetch'[i] = IdleFetch]_vars
    /\ [](\A i \in Tasks : Fetched(i) => fetch[i] = IdleFetch)
    /\ [](\A i \in Tasks :
            (task[i].st = "handled" /\ task[i].page # None /\ task[i].out.exc # "") =>
                items[i].url \in errlog)

C20_Witness ==
    \E i \in Tasks :
        /\ task[i].st = "handled" /\ task[i].page # None
        /\ task[i].out.exc = "AttributeError"
        /\ fetch[i] = IdleFetch
        /\ items[i].url \in errlog

====
